---- MODULE Spec2Model ----
(***************************************************************************)
(* Model of the ev3dev-lang-rust device-attribute layer:                   *)
(*   - the discovery operations of Driver (src/src/driver.rs), which scan  *)
(*     a class directory under /sys/class/ and filter the children by      *)
(*     their address and driver_name attribute files;                      *)
(*   - the change-notified wait primitive (src/src/wait.rs).               *)
(*   - the attribute cache of Driver (new, get_attribute, clone).          *)
(* Spec is the specification of the discovery operations, WaitSpec the     *)
(* specification of wait, DriverSpec the specification of the cache.       *)
(***************************************************************************)
EXTENDS Integers, Sequences, FiniteSets, TLC

VARIABLES
    dir,        \* the class directory /sys/class/<class_name>
    call,       \* the discovery operation last called, with its arguments
    ret,        \* what that call returned
    io,         \* the filesystem calls made by that call, in order
    pc,         \* where the call of wait is
    timeout,    \* wait's argument timeout: Option<Duration>
    cond,       \* what the caller's condition evaluates to at this moment
    now,        \* the monotonic clock
    start,      \* wait's local start
    t,          \* wait's local t: Option<Duration>
    wait_timeout,   \* the timeout of the last epoll_wait, in milliseconds
    epoll,      \* what the last epoll_wait returned
    result,     \* what wait returned
    evals,      \* what the calls of cond() made by wait returned, in order
    epollCalls, \* the number of calls of epoll_wait made by wait
    clockReads, \* the number of times wait read the clock
    drivers,    \* the Driver instances, in the order they were made
    last,       \* the Driver operation last called, and how it ended
    cloneOf,    \* for each Driver, the Driver it is a clone of, or 0
    failed      \* the (Driver, attribute name) whose construction failed last

discVars == <<dir, call, ret, io>>

waitVars == <<pc, timeout, cond, now, start, t, wait_timeout, epoll, result,
              evals, epollCalls, clockReads>>

driverVars == <<drivers, last, cloneOf, failed>>

vars == <<discVars, waitVars, driverVars>>

(***************************************************************************)
(* Bounds of the model.                                                    *)
(***************************************************************************)
MaxChildren == 2

\* the calls of epoll_wait one call of wait is followed through
MaxCalls == 3

\* the Driver instances that are made
MaxDrivers == 2

(***************************************************************************)
(* Text values.  A string is a sequence of characters.                     *)
(***************************************************************************)
\* the values Port::address() takes
PortAddresses == { <<"o", "A">>, <<"o", "B">> }

\* the contents an address attribute file takes
AddressValues == { <<"p", "o", "A">>, <<"o", "B">> }

\* the contents of a driver_name attribute file, and the driver_name asked for
DriverNames == { <<"l">>, <<"l", "m">> }

\* the file name of the k-th child of the class directory
DeviceNames == <<"motor0", "motor1", "motor2", "motor3">>

\* str::contains: pat occurs in s as a contiguous substring
Contains(s, pat) ==
    \E k \in 0..(Len(s) - Len(pat)) : SubSeq(s, k + 1, k + Len(pat)) = pat

(***************************************************************************)
(* The filesystem.  An attribute file either fails (it cannot be opened or *)
(* read as text) or yields its text.                                       *)
(***************************************************************************)
AttrFiles(values) ==
    { [st |-> "fail", val |-> <<>>] } \cup { [st |-> "ok", val |-> v] : v \in values }

NoAttr == [st |-> "fail", val |-> <<>>]

\* a directory entry: the iterator fails on it, or its file name is not valid
\* text, or it is a device directory with an address and a driver_name file
EntriesAt(k) ==
    { [kind |-> "ioerr", name |-> "", address |-> NoAttr, driver_name |-> NoAttr],
      [kind |-> "badname", name |-> "", address |-> NoAttr, driver_name |-> NoAttr] }
    \cup { [kind |-> "dev", name |-> DeviceNames[k], address |-> a, driver_name |-> d] :
             a \in AttrFiles(AddressValues), d \in AttrFiles(DriverNames) }

ChildLists ==
    UNION { { c \in [1..n -> UNION { EntriesAt(k) : k \in 1..n }] :
                \A k \in 1..n : c[k] \in EntriesAt(k) } : n \in 0..MaxChildren }

\* the class directory: read_dir fails on it, or it lists its children
Dirs == { [readable |-> FALSE, children |-> <<>>] }
        \cup { [readable |-> TRUE, children |-> c] : c \in ChildLists }

\* the orders in which read_dir may enumerate n children
Orders(n) == { o \in [1..n -> 1..n] : \A i, j \in 1..n : i # j => o[i] # o[j] }

(***************************************************************************)
(* Results: Ev3Result<String> and Ev3Result<Vec<String>>.                  *)
(***************************************************************************)
Ok(name)      == [kind |-> "Ok", names |-> <<name>>, cause |-> ""]
OkList(names) == [kind |-> "OkList", names |-> names, cause |-> ""]
NotFound      == [kind |-> "NotFound", names |-> <<>>, cause |-> ""]
MultipleMatches == [kind |-> "MultipleMatches", names |-> <<>>, cause |-> ""]
Failure(cause) == [kind |-> "Error", names |-> <<>>, cause |-> cause]

NoCall == [op |-> "none", port |-> <<>>, driver |-> <<>>, order |-> <<>>]

(***************************************************************************)
(* Reading one attribute file of a child as text:                          *)
(*     Attribute::new(class_name, name, attr)?.get::<String>()?            *)
(* The attribute read is appended to log, the filesystem calls made.       *)
(***************************************************************************)
ReadString_lenient(file, name, attr, log) ==
    [ok |-> TRUE, val |-> file.val, io |-> Append(log, <<"get", name, attr>>)]

ReadString(file, name, attr, log) ==
    [ok |-> file.st = "ok", val |-> file.val, io |-> Append(log, <<"get", name, attr>>)]

\* address.get::<String>()?.contains(&port_address)
AddressMatches_eq(address, port_address) == address = port_address

AddressMatches(address, port_address) == Contains(address, port_address)

\* driver.get::<String>()? == driver_name
DriverMatches_prefix(driver, driver_name) ==
    /\ Len(driver_name) <= Len(driver)
    /\ SubSeq(driver, 1, Len(driver_name)) = driver_name

DriverMatches(driver, driver_name) == driver = driver_name

\* fs::read_dir(...)?: the children in the order the iterator yields them
ReadDir(d, order) == [k \in 1..Len(d.children) |-> d.children[order[k]]]

(***************************************************************************)
(* find_name_by_port_and_driver: the for loop from the i-th path on.       *)
(***************************************************************************)
RECURSIVE PortAndDriverLoop(_, _, _, _, _)
PortAndDriverLoop(paths, i, port_address, driver_name, log) ==
    IF i > Len(paths) THEN [res |-> NotFound, io |-> log]
    ELSE IF paths[i].kind = "ioerr" THEN [res |-> Failure("io"), io |-> log]
    ELSE IF paths[i].kind = "badname" THEN [res |-> Failure("decode"), io |-> log]
    ELSE
        LET name    == paths[i].name
            address == ReadString(paths[i].address, name, "address", log)
            driver  == ReadString(paths[i].driver_name, name, "driver_name", address.io)
        IN  IF ~address.ok THEN [res |-> Failure("io"), io |-> address.io]
            ELSE IF AddressMatches(address.val, port_address)
            THEN IF ~driver.ok THEN [res |-> Failure("io"), io |-> driver.io]
                 ELSE IF DriverMatches(driver.val, driver_name)
                 THEN [res |-> Ok(name), io |-> driver.io]
                 ELSE PortAndDriverLoop(paths, i + 1, port_address, driver_name, driver.io)
            ELSE PortAndDriverLoop(paths, i + 1, port_address, driver_name, address.io)

find_name_by_port_and_driver(d, order, port_address, driver_name) ==
    IF ~d.readable THEN [res |-> Failure("io"), io |-> <<<<"read_dir">>>>]
    ELSE PortAndDriverLoop(ReadDir(d, order), 1, port_address, driver_name, <<<<"read_dir">>>>)

(***************************************************************************)
(* find_name_by_port: the for loop from the i-th path on.                  *)
(***************************************************************************)
RECURSIVE PortLoop(_, _, _, _)
PortLoop(paths, i, port_address, log) ==
    IF i > Len(paths) THEN [res |-> NotFound, io |-> log]
    ELSE IF paths[i].kind = "ioerr" THEN [res |-> Failure("io"), io |-> log]
    ELSE IF paths[i].kind = "badname" THEN [res |-> Failure("decode"), io |-> log]
    ELSE
        LET name    == paths[i].name
            address == ReadString(paths[i].address, name, "address", log)
        IN  IF ~address.ok THEN [res |-> Failure("io"), io |-> address.io]
            ELSE IF AddressMatches(address.val, port_address)
            THEN [res |-> Ok(name), io |-> address.io]
            ELSE PortLoop(paths, i + 1, port_address, address.io)

find_name_by_port(d, order, port_address) ==
    IF ~d.readable THEN [res |-> Failure("io"), io |-> <<<<"read_dir">>>>]
    ELSE PortLoop(ReadDir(d, order), 1, port_address, <<<<"read_dir">>>>)

(***************************************************************************)
(* find_names_by_driver: the for loop from the i-th path on, found_names   *)
(* being the names pushed so far.                                          *)
(***************************************************************************)
RECURSIVE NamesLoop(_, _, _, _, _)
NamesLoop(paths, i, driver_name, found_names, log) ==
    IF i > Len(paths) THEN [res |-> OkList(found_names), io |-> log]
    ELSE IF paths[i].kind = "ioerr" THEN [res |-> Failure("io"), io |-> log]
    ELSE IF paths[i].kind = "badname" THEN [res |-> Failure("decode"), io |-> log]
    ELSE
        LET name   == paths[i].name
            driver == ReadString(paths[i].driver_name, name, "driver_name", log)
        IN  IF ~driver.ok THEN [res |-> Failure("io"), io |-> driver.io]
            ELSE IF DriverMatches(driver.val, driver_name)
            THEN NamesLoop(paths, i + 1, driver_name, Append(found_names, name), driver.io)
            ELSE NamesLoop(paths, i + 1, driver_name, found_names, driver.io)

\* find_names_by_driver with a failure of read_dir taken for an empty directory
find_names_by_driver_unchecked(d, order, driver_name) ==
    NamesLoop(ReadDir(d, order), 1, driver_name, <<>>, <<<<"read_dir">>>>)

find_names_by_driver(d, order, driver_name) ==
    IF ~d.readable THEN [res |-> Failure("io"), io |-> <<<<"read_dir">>>>]
    ELSE NamesLoop(ReadDir(d, order), 1, driver_name, <<>>, <<<<"read_dir">>>>)

(***************************************************************************)
(* find_name_by_driver: the match on names.len().                          *)
(***************************************************************************)
SelectOne_first(names) ==
    IF Len(names) = 0 THEN NotFound ELSE Ok(names[Len(names)])

SelectOne(names) ==
    IF Len(names) = 0 THEN NotFound
    ELSE IF Len(names) = 1 THEN Ok(names[Len(names)])
    ELSE MultipleMatches

find_name_by_driver(d, order, driver_name) ==
    LET names == find_names_by_driver(d, order, driver_name)
    IN  IF names.res.kind = "Error" THEN names
        ELSE [res |-> SelectOne(names.res.names), io |-> names.io]


(***************************************************************************)
(* Durations and instants, as std::time::Duration holds them: whole        *)
(* seconds and the nanoseconds of the second begun.                        *)
(***************************************************************************)
NANOS_PER_SEC == 1000000000

NANOS_PER_MILLI == 1000000

MILLIS_PER_SEC == 1000

Duration(secs, nanos) == [secs |-> secs, nanos |-> nanos]

Zero == Duration(0, 0)

\* Duration::from_millis
Millis(ms) == Duration(ms \div MILLIS_PER_SEC, (ms % MILLIS_PER_SEC) * NANOS_PER_MILLI)

\* a <= b, a < b
DLe(a, b) == a.secs < b.secs \/ (a.secs = b.secs /\ a.nanos <= b.nanos)

DLt(a, b) == ~DLe(b, a)

DAdd(a, b) ==
    Duration(a.secs + b.secs + (a.nanos + b.nanos) \div NANOS_PER_SEC,
             (a.nanos + b.nanos) % NANOS_PER_SEC)

\* a - b, for b <= a
DSub(a, b) ==
    IF a.nanos >= b.nanos
    THEN Duration(a.secs - b.secs, a.nanos - b.nanos)
    ELSE Duration(a.secs - b.secs - 1, a.nanos + NANOS_PER_SEC - b.nanos)

\* Option<Duration>
None == [some |-> FALSE, d |-> Zero]

Some(d) == [some |-> TRUE, d |-> d]

(***************************************************************************)
(* duration.as_millis() as i32: the whole milliseconds of the duration,    *)
(* truncated to their low 32 bits and read as a signed number.  The 32     *)
(* bits are computed as two halves of 16 bits.                             *)
(***************************************************************************)
HALF_WORD == 65536

AsMillisI32(d) ==
    LET low  == (d.secs % HALF_WORD) * MILLIS_PER_SEC + d.nanos \div NANOS_PER_MILLI
        lo16 == low % HALF_WORD
        hi16 == ((d.secs \div HALF_WORD) * MILLIS_PER_SEC + low \div HALF_WORD) % HALF_WORD
    IN  IF 2 * hi16 >= HALF_WORD
        THEN (hi16 - HALF_WORD) * HALF_WORD + lo16
        ELSE hi16 * HALF_WORD + lo16

(***************************************************************************)
(* The values the model draws the timeout and the passing of time from.    *)
(***************************************************************************)
HalfMilli == Duration(0, 500000)

\* more than i32::MAX milliseconds
Long == Duration(2147484, 0)

Timeouts == { None, Some(Zero), Some(DAdd(Millis(1), HalfMilli)), Some(Long) }

\* how long an evaluation of cond() takes
CondDelays == { Zero, HalfMilli }

\* how long after the call epoll_wait returns on an event or a failure
BlockDelays == { Zero, HalfMilli, DAdd(Long, Long) }

\* how long after its timeout has expired epoll_wait returns
Slacks == { Zero, HalfMilli }

WaitIdle ==
    /\ pc = "idle"
    /\ timeout = None
    /\ cond = FALSE
    /\ now = Zero
    /\ start = Zero
    /\ t = None
    /\ wait_timeout = 0
    /\ epoll = 0
    /\ result = FALSE
    /\ evals = <<>>
    /\ epollCalls = 0
    /\ clockReads = 0


(***************************************************************************)
(* Driver and its attribute cache.  An Attribute is a handle of the opened *)
(* file /sys/class/<class_name>/<name>/<attribute_name>; the handles made  *)
(* by one construction and their copies are the same handle, and the       *)
(* handles made by two constructions differ: a handle is named by its file *)
(* and by the Driver whose get_attribute constructed it.                   *)
(***************************************************************************)
ClassNames == { "tacho-motor" }

DriverDeviceNames == { "motor0", "motor1" }

AttributeNames == { "position", "speed" }

\* the handle Attribute::new(class_name, name, attribute_name) yields when
\* called by the Driver at index owner
Attribute(class_name, name, attribute_name, owner) ==
    [class_name |-> class_name, name |-> name,
     attribute_name |-> attribute_name, owner |-> owner]

NoAttribute == Attribute("", "", "", 0)

\* HashMap::new(), contains_key, insert, get
EmptyMap == <<>>

ContainsKey(map, key) == key \in DOMAIN map

Insert(map, key, value) ==
    [k \in DOMAIN map \cup {key} |-> IF k = key THEN value ELSE map[k]]

\* Driver::new
new(class_name, name) ==
    [class_name |-> class_name, name |-> name, attributes |-> EmptyMap]

\* impl Clone for Driver, with the cache copied too
clone_shared(self) == self

\* impl Clone for Driver
clone(self) ==
    [class_name |-> self.class_name, name |-> self.name, attributes |-> EmptyMap]

NoDrivers ==
    /\ drivers = <<>>
    /\ cloneOf = <<>>
    /\ failed = <<0, "">>
    /\ last = [op |-> "none", driver |-> 0, attr |-> "", hit |-> FALSE,
               constructed |-> 0, newOk |-> FALSE, outcome |-> "none",
               handle |-> NoAttribute]

(***************************************************************************)
(* The discovery operations as actions.  Each call is made against the     *)
(* current directory, with read_dir enumerating in some order.             *)
(***************************************************************************)
Init ==
    /\ dir \in Dirs
    /\ call = NoCall
    /\ ret = NotFound
    /\ io = <<>>
    /\ WaitIdle
    /\ NoDrivers

Returns(c, r) ==
    /\ call' = c
    /\ ret' = r.res
    /\ io' = r.io
    /\ UNCHANGED <<dir, waitVars, driverVars>>

FindNameByPortAndDriver ==
    \E port \in PortAddresses, driver \in DriverNames, order \in Orders(Len(dir.children)) :
        Returns([op |-> "find_name_by_port_and_driver", port |-> port,
                 driver |-> driver, order |-> order],
                find_name_by_port_and_driver(dir, order, port, driver))

FindNameByPort ==
    \E port \in PortAddresses, order \in Orders(Len(dir.children)) :
        Returns([op |-> "find_name_by_port", port |-> port,
                 driver |-> <<>>, order |-> order],
                find_name_by_port(dir, order, port))

FindNameByDriver ==
    \E driver \in DriverNames, order \in Orders(Len(dir.children)) :
        Returns([op |-> "find_name_by_driver", port |-> <<>>,
                 driver |-> driver, order |-> order],
                find_name_by_driver(dir, order, driver))

FindNamesByDriver ==
    \E driver \in DriverNames, order \in Orders(Len(dir.children)) :
        Returns([op |-> "find_names_by_driver", port |-> <<>>,
                 driver |-> driver, order |-> order],
                find_names_by_driver(dir, order, driver))

Next ==
    \/ FindNameByPortAndDriver
    \/ FindNameByPort
    \/ FindNameByDriver
    \/ FindNamesByDriver

Spec == Init /\ [][Next]_vars

(***************************************************************************)
(* wait(fd, cond, timeout), step by step.  Time passes while cond() is     *)
(* evaluated and while epoll_wait blocks; the condition changes whenever   *)
(* the environment makes it change.                                        *)
(***************************************************************************)
WaitInit ==
    /\ dir = [readable |-> FALSE, children |-> <<>>]
    /\ call = NoCall
    /\ ret = NotFound
    /\ io = <<>>
    /\ pc = "entry"
    /\ timeout \in Timeouts
    /\ cond \in BOOLEAN
    /\ now = Zero
    /\ start = Zero
    /\ t = None
    /\ wait_timeout = 0
    /\ epoll = 0
    /\ result = FALSE
    /\ evals = <<>>
    /\ epollCalls = 0
    /\ clockReads = 0
    /\ NoDrivers

Return(value) ==
    /\ pc' = "done"
    /\ result' = value

\* lines 29-31 with the clock read before the condition is evaluated
CheckOnEntry_clockFirst ==
    /\ pc = "entry"
    /\ evals' = Append(evals, cond)
    /\ \E delay \in CondDelays : now' = DAdd(now, delay)
    /\ start' = now
    /\ clockReads' = clockReads + 1
    /\ IF cond THEN Return(TRUE) ELSE pc' = "start" /\ UNCHANGED result
    /\ UNCHANGED <<timeout, cond, t, wait_timeout, epoll, epollCalls>>
    /\ UNCHANGED <<discVars, driverVars>>

\* lines 29-31: if cond() { return true; }
CheckOnEntry ==
    /\ pc = "entry"
    /\ evals' = Append(evals, cond)
    /\ \E delay \in CondDelays : now' = DAdd(now, delay)
    /\ IF cond THEN Return(TRUE) ELSE pc' = "start" /\ UNCHANGED result
    /\ UNCHANGED <<timeout, cond, start, t, wait_timeout, epoll, epollCalls, clockReads>>
    /\ UNCHANGED <<discVars, driverVars>>

\* lines 33-35: let start = Instant::now(); let mut t = timeout;
TakeStart ==
    /\ pc = "start"
    /\ start' = now
    /\ clockReads' = clockReads + 1
    /\ t' = timeout
    /\ pc' = "loop"
    /\ UNCHANGED <<timeout, cond, now, wait_timeout, epoll, result, evals, epollCalls>>
    /\ UNCHANGED <<discVars, driverVars>>

\* lines 38-42 with a timeout of 0 for None
Block_poll ==
    /\ pc = "loop"
    /\ epollCalls < MaxCalls
    /\ wait_timeout' = IF t.some THEN AsMillisI32(t.d) ELSE 0
    /\ epollCalls' = epollCalls + 1
    /\ pc' = "blocked"
    /\ UNCHANGED <<timeout, cond, now, start, t, epoll, result, evals, clockReads>>
    /\ UNCHANGED <<discVars, driverVars>>

\* lines 38-42: the timeout of this iteration, and the call of epoll_wait
Block ==
    /\ pc = "loop"
    /\ epollCalls < MaxCalls
    /\ wait_timeout' = IF t.some THEN AsMillisI32(t.d) ELSE -1
    /\ epollCalls' = epollCalls + 1
    /\ pc' = "blocked"
    /\ UNCHANGED <<timeout, cond, now, start, t, epoll, result, evals, clockReads>>
    /\ UNCHANGED <<discVars, driverVars>>

\* epoll_wait returns value after delay
EpollReturns(value, delay) ==
    /\ pc = "blocked"
    /\ epoll' = value
    /\ now' = DAdd(now, delay)
    /\ pc' = "woken"
    /\ UNCHANGED <<timeout, cond, start, t, wait_timeout, result, evals, epollCalls, clockReads>>
    /\ UNCHANGED <<discVars, driverVars>>

\* a negative timeout makes epoll_wait block until an event or a failure
InTime(delay) == wait_timeout >= 0 => DLe(delay, Millis(wait_timeout))

\* epoll_wait returns the number of events: the file has changed
EpollEvent == \E delay \in BlockDelays : InTime(delay) /\ EpollReturns(1, delay)

\* epoll_wait returns 0: its timeout has expired
EpollTimeout ==
    /\ wait_timeout >= 0
    /\ \E slack \in Slacks : EpollReturns(0, DAdd(Millis(wait_timeout), slack))

\* epoll_wait returns -1: it was interrupted by a signal, or fd is not valid
EpollFails == \E delay \in BlockDelays : InTime(delay) /\ EpollReturns(-1, delay)

\* wait_file_changes: result > 0
wait_file_changes == epoll > 0

\* lines 44-50 with elapsed > duration for elapsed >= duration
CheckTimeout_strict ==
    /\ pc = "woken"
    /\ IF timeout.some
       THEN /\ clockReads' = clockReads + 1
            /\ IF DLt(timeout.d, DSub(now, start))
               THEN Return(FALSE) /\ UNCHANGED t
               ELSE /\ t' = Some(DSub(timeout.d, DSub(now, start)))
                    /\ pc' = "recheck"
                    /\ UNCHANGED result
       ELSE /\ pc' = "recheck"
            /\ UNCHANGED <<clockReads, t, result>>
    /\ UNCHANGED <<timeout, cond, now, start, wait_timeout, epoll, evals, epollCalls>>
    /\ UNCHANGED <<discVars, driverVars>>

\* lines 44-50 with the elapsed time compared to the remaining budget t
CheckTimeout_remaining ==
    /\ pc = "woken"
    /\ IF timeout.some
       THEN /\ clockReads' = clockReads + 1
            /\ IF DLe(t.d, DSub(now, start))
               THEN Return(FALSE) /\ UNCHANGED t
               ELSE /\ t' = Some(DSub(timeout.d, DSub(now, start)))
                    /\ pc' = "recheck"
                    /\ UNCHANGED result
       ELSE /\ pc' = "recheck"
            /\ UNCHANGED <<clockReads, t, result>>
    /\ UNCHANGED <<timeout, cond, now, start, wait_timeout, epoll, evals, epollCalls>>
    /\ UNCHANGED <<discVars, driverVars>>

\* lines 44-50 with the elapsed time taken off the previous remainder
CheckTimeout_decrement ==
    /\ pc = "woken"
    /\ IF timeout.some
       THEN /\ clockReads' = clockReads + 1
            /\ IF DLe(timeout.d, DSub(now, start))
               THEN Return(FALSE) /\ UNCHANGED t
               ELSE /\ t' = Some(DSub(t.d, DSub(now, start)))
                    /\ pc' = "recheck"
                    /\ UNCHANGED result
       ELSE /\ pc' = "recheck"
            /\ UNCHANGED <<clockReads, t, result>>
    /\ UNCHANGED <<timeout, cond, now, start, wait_timeout, epoll, evals, epollCalls>>
    /\ UNCHANGED <<discVars, driverVars>>

\* lines 44-50: the check of the total timeout
CheckTimeout ==
    /\ pc = "woken"
    /\ IF timeout.some
       THEN /\ clockReads' = clockReads + 1
            /\ IF DLe(timeout.d, DSub(now, start))
               THEN Return(FALSE) /\ UNCHANGED t
               ELSE /\ t' = Some(DSub(timeout.d, DSub(now, start)))
                    /\ pc' = "recheck"
                    /\ UNCHANGED result
       ELSE /\ pc' = "recheck"
            /\ UNCHANGED <<clockReads, t, result>>
    /\ UNCHANGED <<timeout, cond, now, start, wait_timeout, epoll, evals, epollCalls>>
    /\ UNCHANGED <<discVars, driverVars>>

\* lines 52-54 with cond() evaluated only when the file has changed
Recheck_onEvent ==
    /\ pc = "recheck"
    /\ IF wait_file_changes
       THEN /\ evals' = Append(evals, cond)
            /\ \E delay \in CondDelays : now' = DAdd(now, delay)
            /\ IF cond THEN Return(TRUE) ELSE pc' = "loop" /\ UNCHANGED result
       ELSE /\ pc' = "loop"
            /\ UNCHANGED <<evals, now, result>>
    /\ UNCHANGED <<timeout, cond, start, t, wait_timeout, epoll, epollCalls, clockReads>>
    /\ UNCHANGED <<discVars, driverVars>>

\* lines 52-54: if cond() { return true; }
Recheck ==
    /\ pc = "recheck"
    /\ evals' = Append(evals, cond)
    /\ \E delay \in CondDelays : now' = DAdd(now, delay)
    /\ IF cond THEN Return(TRUE) ELSE pc' = "loop" /\ UNCHANGED result
    /\ UNCHANGED <<timeout, cond, start, t, wait_timeout, epoll, epollCalls, clockReads>>
    /\ UNCHANGED <<discVars, driverVars>>

\* the environment: what cond() reads changes
CondChanges ==
    /\ pc \notin { "idle", "done" }
    /\ cond' = ~cond
    /\ UNCHANGED <<pc, timeout, now, start, t, wait_timeout, epoll, result,
                   evals, epollCalls, clockReads>>
    /\ UNCHANGED <<discVars, driverVars>>

WaitNext ==
    \/ CheckOnEntry
    \/ TakeStart
    \/ Block
    \/ EpollEvent
    \/ EpollTimeout
    \/ EpollFails
    \/ CheckTimeout
    \/ Recheck
    \/ CondChanges

WaitSpec == WaitInit /\ [][WaitNext]_vars

(***************************************************************************)
(* get_attribute called on the Driver self, which is at index owner, with  *)
(* newOk telling whether Attribute::new succeeds if it is called.  Yields  *)
(* the Driver afterwards, whether the name was cached on entry, the number *)
(* of calls of Attribute::new made, and the handle returned, or the panic  *)
(* of expect("Internal error in the attribute map").                       *)
(***************************************************************************)
GetResult(self, attributes, hit, constructed, attribute_name) ==
    [self        |-> [self EXCEPT !.attributes = attributes],
     hit         |-> hit,
     constructed |-> constructed,
     outcome     |-> IF ContainsKey(attributes, attribute_name) THEN "ok" ELSE "panic",
     handle      |-> IF ContainsKey(attributes, attribute_name)
                     THEN attributes[attribute_name] ELSE NoAttribute]

\* get_attribute without the contains_key test
get_attribute_nocache(self, owner, attribute_name, newOk) ==
    LET v == Attribute(self.class_name, self.name, attribute_name, owner)
    IN  GetResult(self,
                  IF newOk THEN Insert(self.attributes, attribute_name, v)
                  ELSE self.attributes,
                  ContainsKey(self.attributes, attribute_name), 1, attribute_name)

\* get_attribute caching a default handle when the construction fails
get_attribute_default(self, owner, attribute_name, newOk) ==
    LET hit == ContainsKey(self.attributes, attribute_name)
        v   == IF newOk THEN Attribute(self.class_name, self.name, attribute_name, owner)
               ELSE NoAttribute
    IN  GetResult(self,
                  IF ~hit THEN Insert(self.attributes, attribute_name, v)
                  ELSE self.attributes,
                  hit, IF hit THEN 0 ELSE 1, attribute_name)

\* get_attribute starting a new map on a miss
get_attribute_clear(self, owner, attribute_name, newOk) ==
    LET hit == ContainsKey(self.attributes, attribute_name)
        v   == Attribute(self.class_name, self.name, attribute_name, owner)
    IN  GetResult(self,
                  IF ~hit /\ newOk THEN Insert(EmptyMap, attribute_name, v)
                  ELSE self.attributes,
                  hit, IF hit THEN 0 ELSE 1, attribute_name)

\* lines 124-139
get_attribute(self, owner, attribute_name, newOk) ==
    LET hit == ContainsKey(self.attributes, attribute_name)
        v   == Attribute(self.class_name, self.name, attribute_name, owner)
    IN  GetResult(self,
                  IF ~hit /\ newOk THEN Insert(self.attributes, attribute_name, v)
                  ELSE self.attributes,
                  hit, IF hit THEN 0 ELSE 1, attribute_name)

(***************************************************************************)
(* The operations of Driver as actions.  A panic of get_attribute unwinds  *)
(* and leaves the Driver usable.                                           *)
(***************************************************************************)
DriverInit ==
    /\ dir = [readable |-> FALSE, children |-> <<>>]
    /\ call = NoCall
    /\ ret = NotFound
    /\ io = <<>>
    /\ WaitIdle
    /\ NoDrivers

New ==
    /\ Len(drivers) < MaxDrivers
    /\ \E class_name \in ClassNames, name \in DriverDeviceNames :
         /\ drivers' = Append(drivers, new(class_name, name))
         /\ last' = [op |-> "new", driver |-> Len(drivers) + 1, attr |-> "",
                     hit |-> FALSE, constructed |-> 0, newOk |-> FALSE,
                     outcome |-> "ok", handle |-> NoAttribute]
         /\ cloneOf' = Append(cloneOf, 0)
    /\ UNCHANGED <<discVars, waitVars, failed>>

GetAttribute ==
    /\ \E i \in 1..Len(drivers), attribute_name \in AttributeNames, newOk \in BOOLEAN :
         LET r == get_attribute(drivers[i], i, attribute_name, newOk)
         IN  /\ drivers' = [drivers EXCEPT ![i] = r.self]
             /\ last' = [op |-> "get_attribute", driver |-> i, attr |-> attribute_name,
                         hit |-> r.hit, constructed |-> r.constructed,
                         newOk |-> newOk /\ r.constructed > 0,
                         outcome |-> r.outcome, handle |-> r.handle]
             /\ failed' = IF r.outcome = "panic"
                          THEN <<i, attribute_name>> ELSE failed
    /\ UNCHANGED <<discVars, waitVars, cloneOf>>

Clone ==
    /\ Len(drivers) < MaxDrivers
    /\ \E i \in 1..Len(drivers) :
         /\ drivers' = Append(drivers, clone(drivers[i]))
         /\ last' = [op |-> "clone", driver |-> i, attr |-> "",
                     hit |-> FALSE, constructed |-> 0, newOk |-> FALSE,
                     outcome |-> "ok", handle |-> NoAttribute]
         /\ cloneOf' = Append(cloneOf, i)
    /\ UNCHANGED <<discVars, waitVars, failed>>

DriverNext ==
    \/ New
    \/ GetAttribute
    \/ Clone

DriverSpec == DriverInit /\ [][DriverNext]_vars

(***************************************************************************)
(* Vocabulary of the discovery properties, stated on the directory itself. *)
(***************************************************************************)
Children == 1..Len(dir.children)

Child(k) == dir.children[k]

IsDevice(k) == Child(k).kind = "dev"

\* the address file of child k is readable and contains the port's address
AddressHit(k, port) ==
    /\ IsDevice(k)
    /\ Child(k).address.st = "ok"
    /\ Contains(Child(k).address.val, port)

\* the driver_name file of child k is readable and equals driver
DriverHit(k, driver) ==
    /\ IsDevice(k)
    /\ Child(k).driver_name.st = "ok"
    /\ Child(k).driver_name.val = driver

BothHit(k, port, driver) == AddressHit(k, port) /\ DriverHit(k, driver)

\* every entry is a device directory whose driver_name / address is readable
DriversReadable ==
    dir.readable /\ \A k \in Children : IsDevice(k) /\ Child(k).driver_name.st = "ok"

AddressesReadable ==
    dir.readable /\ \A k \in Children : IsDevice(k) /\ Child(k).address.st = "ok"

\* the position at which the last call's read_dir enumerated child k
Pos(k) == CHOOSE p \in Children : call.order[p] = k

NameSet(names) == { names[i] : i \in 1..Len(names) }

(***************************************************************************)
(* C1: find_name_by_driver, when every entry and driver_name file is       *)
(* readable, returns NotFound if no child has the driver_name asked for,   *)
(* that child's name if exactly one has, MultipleMatches if two or more.   *)
(***************************************************************************)
C1_FindNameByDriver ==
    (call.op = "find_name_by_driver" /\ DriversReadable) =>
        LET hits == { k \in Children : DriverHit(k, call.driver) }
        IN  /\ hits = {} => ret = NotFound
            /\ Cardinality(hits) = 1 => \E k \in hits : ret = Ok(Child(k).name)
            /\ Cardinality(hits) >= 2 => ret = MultipleMatches

C1_Witness ==
    /\ call.op = "find_name_by_driver"
    /\ DriversReadable
    /\ Cardinality({ k \in Children : DriverHit(k, call.driver) }) >= 2
    /\ ret = MultipleMatches

(***************************************************************************)
(* C2: find_name_by_port returns MultipleMatches whenever more than one    *)
(* child has an address that matches the port's address.                   *)
(***************************************************************************)
C2_PortMultipleMatches ==
    (/\ call.op = "find_name_by_port"
     /\ Cardinality({ k \in Children : AddressHit(k, call.port) }) > 1)
        => ret = MultipleMatches

(***************************************************************************)
(* C3: find_name_by_port_and_driver returns Ok(n) only for a child n whose *)
(* address contains the port's address and whose driver_name equals the    *)
(* driver asked for; children that match on the address alone are skipped; *)
(* of several children matching on both, the first enumerated is returned; *)
(* NotFound is returned when the scan completes without such a child.      *)
(***************************************************************************)
\* child k makes the scan of find_name_by_port_and_driver fail
PortAndDriverBad(k, port) ==
    \/ ~IsDevice(k)
    \/ Child(k).address.st # "ok"
    \/ Contains(Child(k).address.val, port) /\ Child(k).driver_name.st # "ok"

C3_FindNameByPortAndDriver ==
    (call.op = "find_name_by_port_and_driver" /\ dir.readable) =>
        LET hits == { k \in Children : BothHit(k, call.port, call.driver) }
        IN  /\ ret.kind = "Ok" =>
                \E k \in hits : /\ ret = Ok(Child(k).name)
                                /\ \A j \in hits : Pos(k) <= Pos(j)
            /\ \A k \in hits :
                 (\A j \in Children : Pos(j) < Pos(k) =>
                       ~PortAndDriverBad(j, call.port) /\ j \notin hits)
                    => ret = Ok(Child(k).name)
            /\ (\A j \in Children : ~PortAndDriverBad(j, call.port))
                    => (hits = {} <=> ret = NotFound)
            /\ ret = NotFound => hits = {}

C3_Witness ==
    /\ call.op = "find_name_by_port_and_driver"
    /\ call.order = <<2, 1>>
    /\ BothHit(1, call.port, call.driver)
    /\ BothHit(2, call.port, call.driver)
    /\ Child(2).address.val # call.port
    /\ ret = Ok(Child(2).name)

(***************************************************************************)
(* C4: discovery by port matches on a substring, not on equality:          *)
(* find_name_by_port returns Ok(n) only for a child n whose address        *)
(* contains the port's address and, all files being readable, returns      *)
(* NotFound exactly when no child's address contains it.                   *)
(***************************************************************************)
C4_AddressSubstring ==
    call.op = "find_name_by_port" =>
        LET hits == { k \in Children : AddressHit(k, call.port) }
        IN  /\ ret.kind = "Ok" => \E k \in hits : ret = Ok(Child(k).name)
            /\ AddressesReadable => (ret = NotFound <=> hits = {})

C4_Witness ==
    /\ call.op = "find_name_by_port"
    /\ AddressesReadable
    /\ \E k \in Children : /\ ret = Ok(Child(k).name)
                           /\ Child(k).address.val # call.port
                           /\ Contains(Child(k).address.val, call.port)

(***************************************************************************)
(* C5: find_names_by_driver, when every entry is readable, returns Ok with *)
(* a list holding exactly once each child whose driver_name equals the     *)
(* driver asked for and no other child; with no match the list is empty.   *)
(***************************************************************************)
C5_FindNamesByDriver ==
    (call.op = "find_names_by_driver" /\ DriversReadable) =>
        LET hits == { k \in Children : DriverHit(k, call.driver) }
        IN  /\ ret.kind = "OkList"
            /\ NameSet(ret.names) = { Child(k).name : k \in hits }
            /\ Len(ret.names) = Cardinality(hits)

C5_Witness ==
    /\ call.op = "find_names_by_driver"
    /\ DriversReadable
    /\ \E k \in Children : /\ ~DriverHit(k, call.driver)
                           /\ DriverMatches_prefix(Child(k).driver_name.val, call.driver)
    /\ \E k \in Children : /\ DriverHit(k, call.driver)
                           /\ ret = OkList(<<Child(k).name>>)

(***************************************************************************)
(* C6: in each discovery operation a failure to read the class directory,  *)
(* an entry whose name is not valid text, or a failure to open or read an  *)
(* attribute file the operation filters on makes the call return an error, *)
(* whatever the enumeration order and whichever other children match.      *)
(***************************************************************************)
ByPort   == call.op \in { "find_name_by_port", "find_name_by_port_and_driver" }
ByDriver == call.op \in { "find_name_by_driver", "find_names_by_driver",
                          "find_name_by_port_and_driver" }

\* child k cannot be enumerated, or a file the operation filters on fails
Unreadable(k) ==
    \/ ~IsDevice(k)
    \/ ByPort /\ Child(k).address.st # "ok"
    \/ ByDriver /\ Child(k).driver_name.st # "ok"

C6_AnyFailureIsAnError ==
    (call.op # "none" /\ (~dir.readable \/ \E k \in Children : Unreadable(k)))
        => ret.kind = "Error"

(***************************************************************************)
(* C6 as amended: a failure to read the class directory always makes the   *)
(* call return an error; a bad entry or attribute file does so when the    *)
(* scan gets to it: always in find_names_by_driver and find_name_by_driver *)
(* (which read driver_name only), and in the by-port operations when no    *)
(* child enumerated before it is returned as the match, where              *)
(* find_name_by_port_and_driver opens driver_name only for a child whose   *)
(* address matches.  No call retries: read_dir is called once and no file  *)
(* is opened or read twice.                                                *)
(***************************************************************************)
\* child k makes the scan of the last call fail when the scan gets to it
FailsScan(k) ==
    IF call.op = "find_name_by_port"
    THEN ~IsDevice(k) \/ Child(k).address.st # "ok"
    ELSE IF call.op = "find_name_by_port_and_driver"
    THEN PortAndDriverBad(k, call.port)
    ELSE ~IsDevice(k) \/ Child(k).driver_name.st # "ok"

\* the scan of the last call returns at child k
EndsScan(k) ==
    IF call.op = "find_name_by_port" THEN AddressHit(k, call.port)
    ELSE IF call.op = "find_name_by_port_and_driver"
    THEN BothHit(k, call.port, call.driver)
    ELSE FALSE

C6_FailureReachedIsAnError ==
    call.op # "none" =>
        /\ ~dir.readable => (ret.kind = "Error" /\ io = <<<<"read_dir">>>>)
        /\ \A k \in Children :
             (FailsScan(k) /\ \A j \in Children : Pos(j) < Pos(k) => ~EndsScan(j))
                => ret.kind = "Error"
        /\ ret.kind = "Error" => (~dir.readable \/ \E k \in Children : FailsScan(k))
        /\ io[1] = <<"read_dir">>
        /\ \A a, b \in 1..Len(io) : a # b => io[a] # io[b]

C6_Witness ==
    /\ call.op = "find_name_by_port"
    /\ \E k, j \in Children : /\ Pos(k) < Pos(j)
                              /\ Child(k).address.st = "fail"
                              /\ AddressHit(j, call.port)
    /\ ret.kind = "Error"

(***************************************************************************)
(* Vocabulary of the wait properties.                                      *)
(***************************************************************************)
\* start.elapsed()
Elapsed == DSub(now, start)

\* the total timeout has expired
Expired == timeout.some /\ DLe(timeout.d, Elapsed)

\* wait takes a step
Steps == pc' # pc

(***************************************************************************)
(* C7: wait eagerness.  If cond() is true when wait is entered, wait       *)
(* returns true after that one evaluation of cond, without a call of       *)
(* epoll_wait and without reading the clock, whatever the timeout.         *)
(***************************************************************************)
C7_WaitEagerness ==
    (Len(evals) >= 1 /\ evals[1]) =>
        /\ pc = "done"
        /\ result = TRUE
        /\ Len(evals) = 1
        /\ epollCalls = 0
        /\ clockReads = 0

C7_Witness ==
    /\ pc = "done"
    /\ evals = <<TRUE>>
    /\ result = TRUE
    /\ timeout = Some(Zero)

(***************************************************************************)
(* C8: the timeout is authoritative.  With timeout = Some(d), when         *)
(* epoll_wait has returned and the elapsed time is >= d, wait returns      *)
(* false without evaluating cond again, even if cond is true by then.      *)
(***************************************************************************)
C8_TimeoutAuthoritative ==
    [][(pc = "woken" /\ Expired /\ Steps)
            => (pc' = "done" /\ result' = FALSE /\ evals' = evals)]_vars

C8_Witness ==
    /\ pc = "done"
    /\ result = FALSE
    /\ timeout.some
    /\ cond = TRUE
    /\ epoll = 1

(***************************************************************************)
(* C9: wait monotonicity.  With timeout = Some(d), wait is over no later   *)
(* than d plus a bounded slack after it was entered (at time zero),        *)
(* however cond and epoll_wait behave.                                     *)
(***************************************************************************)
\* two evaluations of cond and the lateness of one epoll_wait
Epsilon == DAdd(HalfMilli, DAdd(HalfMilli, HalfMilli))

C9_WaitMonotonicity ==
    timeout.some => DLe(now, DAdd(timeout.d, Epsilon))

(***************************************************************************)
(* C10: wait satisfied late.  When epoll_wait has returned with the        *)
(* elapsed time still < d, wait goes on to evaluate cond, and if cond is   *)
(* true then, wait returns true at that wakeup, without another call of    *)
(* epoll_wait.                                                             *)
(***************************************************************************)
C10_SatisfiedLate ==
    [][/\ (pc = "woken" /\ timeout.some /\ ~Expired /\ Steps)
            => (pc' = "recheck" /\ evals' = evals /\ epollCalls' = epollCalls)
       /\ (pc = "recheck" /\ cond /\ Steps)
            => (pc' = "done" /\ result' = TRUE /\ epollCalls' = epollCalls)]_vars

C10_Witness ==
    /\ pc = "done"
    /\ result = TRUE
    /\ evals = <<FALSE, TRUE>>
    /\ timeout.some
    /\ epoll = 1
    /\ epollCalls = 1

(***************************************************************************)
(* Vocabulary of the cache properties.                                     *)
(***************************************************************************)
Instances == 1..Len(drivers)

Cache(i) == drivers[i].attributes

\* the last operation was get_attribute
Got == last.op = "get_attribute"

\* a cache entry, once present, stays and stays the same
EntriesKept ==
    \A i \in Instances : \A n \in DOMAIN Cache(i) :
        /\ ContainsKey(drivers'[i].attributes, n)
        /\ drivers'[i].attributes[n] = Cache(i)[n]

(***************************************************************************)
(* C11: cache stability.  After a get_attribute(n) has succeeded, n is     *)
(* cached; a get_attribute(n) that finds n cached constructs no Attribute  *)
(* and returns the cached handle, which is a handle of the file            *)
(* (class_name, name, n); and a cached handle is never replaced.           *)
(***************************************************************************)
C11_CacheStability ==
    /\ []((Got /\ last.outcome = "ok") =>
            /\ ContainsKey(Cache(last.driver), last.attr)
            /\ last.handle = Cache(last.driver)[last.attr]
            /\ last.handle.class_name = drivers[last.driver].class_name
            /\ last.handle.name = drivers[last.driver].name
            /\ last.handle.attribute_name = last.attr)
    /\ []((Got /\ last.hit) => (last.outcome = "ok" /\ last.constructed = 0))
    /\ [][EntriesKept]_vars

C11_Witness ==
    /\ Got
    /\ last.hit
    /\ last.outcome = "ok"
    /\ last.constructed = 0
    /\ last.handle = Attribute("tacho-motor", "motor1", "speed", last.driver)

(***************************************************************************)
(* C12: clone isolates the cache.  Driver::clone yields a Driver with the  *)
(* same (class_name, name) and an empty cache; a get_attribute that does   *)
(* not find the name in its own cache constructs a new Attribute, so no    *)
(* instance holds a handle constructed by another; and a get_attribute on  *)
(* one instance leaves every other instance as it was.                     *)
(***************************************************************************)
C12_CloneIsolatesCache ==
    /\ [](last.op = "clone" =>
            /\ drivers[Len(drivers)].class_name = drivers[last.driver].class_name
            /\ drivers[Len(drivers)].name = drivers[last.driver].name
            /\ drivers[Len(drivers)].attributes = EmptyMap)
    /\ []((Got /\ ~last.hit) => last.constructed = 1)
    /\ [](\A i \in Instances : \A n \in DOMAIN Cache(i) : Cache(i)[n].owner = i)
    /\ [][\A i \in Instances :
            (last'.op = "get_attribute" /\ last'.driver # i) => drivers'[i] = drivers[i]]_vars

C12_Witness ==
    /\ Got
    /\ cloneOf[last.driver] # 0
    /\ ContainsKey(Cache(cloneOf[last.driver]), last.attr)
    /\ ~last.hit
    /\ last.constructed = 1
    /\ last.outcome = "ok"
    /\ last.handle # Cache(cloneOf[last.driver])[last.attr]

(***************************************************************************)
(* C13: when get_attribute(n) is called for an uncached n and the          *)
(* construction fails, nothing is inserted, the call ends in the panic of  *)
(* the internal error, and a later get_attribute(n) on the same Driver     *)
(* attempts the construction again, and caches if it succeeds then.        *)
(***************************************************************************)
C13_FailedConstruction ==
    /\ []((Got /\ ~last.hit) =>
            /\ last.constructed = 1
            /\ last.newOk => /\ last.outcome = "ok"
                             /\ ContainsKey(Cache(last.driver), last.attr)
            /\ ~last.newOk => /\ last.outcome = "panic"
                              /\ last.handle = NoAttribute
                              /\ ~ContainsKey(Cache(last.driver), last.attr))
    /\ [][(last'.op = "get_attribute" /\ last'.outcome = "panic")
            => drivers' = drivers]_vars

C13_Witness ==
    /\ Got
    /\ <<last.driver, last.attr>> = failed
    /\ ~last.hit
    /\ last.constructed = 1
    /\ last.outcome = "ok"
    /\ ContainsKey(Cache(last.driver), last.attr)

(***************************************************************************)
(* C17: over any sequence of new, get_attribute and clone, class_name and  *)
(* name of a Driver never change; a new Driver starts with an empty cache, *)
(* made without a call of Attribute::new; no cache entry is ever removed   *)
(* or replaced; and the entry under key n is the handle constructed for    *)
(* (class_name, name, n).                                                  *)
(***************************************************************************)
C17_DriverInvariants ==
    /\ [](last.op = "new" =>
            (drivers[last.driver].attributes = EmptyMap /\ last.constructed = 0))
    /\ [](\A i \in Instances : \A n \in DOMAIN Cache(i) :
            Cache(i)[n] = Attribute(drivers[i].class_name, drivers[i].name, n, i))
    /\ [][/\ Len(drivers') >= Len(drivers)
          /\ \A i \in Instances : /\ drivers'[i].class_name = drivers[i].class_name
                                  /\ drivers'[i].name = drivers[i].name
                                  /\ DOMAIN Cache(i) \subseteq DOMAIN drivers'[i].attributes
          /\ EntriesKept]_vars

C17_Witness ==
    /\ last.op = "new"
    /\ Len(drivers) = 2
    /\ DOMAIN Cache(1) = AttributeNames
    /\ Cache(2) = EmptyMap
    /\ drivers[1].name # drivers[2].name

(***************************************************************************)
(* C14: with timeout = None every epoll_wait is called with the timeout    *)
(* -1, and wait never returns false: it returns true, right after an       *)
(* evaluation of cond that yielded true, and does not return while every   *)
(* evaluation of cond has yielded false.                                   *)
(***************************************************************************)
C14_NoTimeout ==
    ~timeout.some =>
        /\ epollCalls > 0 => wait_timeout = -1
        /\ pc = "done" => /\ result = TRUE
                          /\ Len(evals) >= 1
                          /\ evals[Len(evals)] = TRUE
        /\ (\A k \in 1..Len(evals) : ~evals[k]) => pc # "done"

C14_Witness ==
    /\ ~timeout.some
    /\ pc = "done"
    /\ result = TRUE
    /\ epollCalls = 2
    /\ wait_timeout = -1
    /\ evals = <<FALSE, FALSE, TRUE>>

(***************************************************************************)
(* C15: with timeout = Some(d) the timeout passed to epoll_wait is the     *)
(* remaining budget (d at first, d - elapsed afterwards) in whole          *)
(* milliseconds, rounded down: it is not negative, not the indefinite -1,  *)
(* and not more than the remaining budget, for every d.                    *)
(***************************************************************************)
C15_PerIterationTimeout ==
    (timeout.some /\ pc = "blocked") =>
        /\ wait_timeout >= 0
        /\ wait_timeout # -1
        /\ DLe(Millis(wait_timeout), t.d)
        /\ DLt(DSub(t.d, Millis(wait_timeout)), Millis(1))
        /\ epollCalls = 1 => t.d = timeout.d

(***************************************************************************)
(* C16: the loop does not branch on what epoll_wait returned.  After every *)
(* return of epoll_wait with the total timeout not expired, cond is        *)
(* evaluated once before the next call of epoll_wait; wait returns true    *)
(* exactly when that evaluation is true, and false only when the total     *)
(* timeout has expired.                                                    *)
(***************************************************************************)
C16_NoBranchOnResult ==
    /\ \A k \in 1..(Len(evals) - 1) : ~evals[k]
    /\ pc = "loop" => (Len(evals) = epollCalls + 1 /\ ~evals[Len(evals)])
    /\ pc \in { "blocked", "woken", "recheck" } => Len(evals) = epollCalls
    /\ (pc = "done" /\ result) => (Len(evals) = epollCalls + 1 /\ evals[Len(evals)])
    /\ (pc = "done" /\ ~result) => (Len(evals) = epollCalls /\ Expired)

C16_Witness ==
    /\ pc = "done"
    /\ result = TRUE
    /\ epoll = -1
    /\ epollCalls = 2
    /\ evals = <<FALSE, FALSE, TRUE>>

(***************************************************************************)
(* C19: the remaining budget is updated safely.  duration - elapsed is     *)
(* computed only when elapsed < duration, so the remaining budget stored   *)
(* is greater than zero; it is the original timeout less the time elapsed  *)
(* since start, and it is never more than the remaining budget before.     *)
(***************************************************************************)
C19_RemainingBudget ==
    [][/\ (pc = "woken" /\ pc' = "recheck" /\ timeout.some) =>
            /\ DLt(Elapsed, timeout.d)
            /\ t' = Some(DSub(timeout.d, Elapsed))
            /\ DLt(Zero, t'.d)
            /\ DLe(t'.d, t.d)
       /\ pc \notin { "start", "woken" } => t' = t]_vars

C19_Witness ==
    /\ pc = "recheck"
    /\ timeout.some
    /\ epollCalls = 2
    /\ DLt(Zero, t.d)
    /\ DLt(t.d, timeout.d)
    /\ DLt(DAdd(t.d, HalfMilli), timeout.d)

(***************************************************************************)
(* C18: independence from the enumeration order.  For the directory as it  *)
(* is, find_name_by_driver has the same outcome (the name, NotFound,       *)
(* MultipleMatches or an error) and find_names_by_driver returns the same  *)
(* set of names (or an error) in whatever order read_dir enumerates.       *)
(***************************************************************************)
\* what the caller tells two results apart by: the kind and the names
Outcome(r) == [kind |-> r.kind, names |-> NameSet(r.names)]

C18_OrderIndependence ==
    /\ call.op = "find_name_by_driver" =>
         \A order \in Orders(Len(dir.children)) :
            Outcome(find_name_by_driver(dir, order, call.driver).res) = Outcome(ret)
    /\ call.op = "find_names_by_driver" =>
         \A order \in Orders(Len(dir.children)) :
            Outcome(find_names_by_driver(dir, order, call.driver).res) = Outcome(ret)

C18_Witness ==
    /\ call.op = "find_names_by_driver"
    /\ call.order = <<2, 1>>
    /\ ret = OkList(<<Child(2).name, Child(1).name>>)
    /\ find_names_by_driver(dir, <<1, 2>>, call.driver).res # ret

====
